---- MODULE Spec2Model ----
(***************************************************************************)
(* Model of the two crawl pipelines of zekhoi-lab/freelance:               *)
(*   nyt/weekly_best_book_seller.py   (one stage: one task per week)       *)
(*   wiseadvisor/finansial_advisor.py (directory -> city links -> advisor) *)
(* and of helpers/utils.py save_to_csv, the sink both pipelines call.      *)
(*                                                                         *)
(* Two state machines share the worker functions:                          *)
(*   Spec        the pipelines: coordinator, thread pool, collector, sink  *)
(*   SpecRunner  one call of a worker function followed through its        *)
(*               retries, with the log of the responses it was served      *)
(***************************************************************************)
EXTENDS Integers, Sequences, FiniteSets, TLC

VARIABLES
    pipeline,         \* "nyt" | "advisor": which script's main() runs
    pc,               \* position of main(): see the actions below
    weekly_dates,     \* nyt: scrape_all_best_sellers.weekly_dates
    cities,           \* advisor: main.cities (None until the directory is read)
    tasks,            \* tasks[s][i]: the future of the i-th submit of stage s
    collected,        \* futures already yielded by as_completed, as <<s, i>>
    idx,              \* idx[s]: the enumerate() counter of stage s's collect loop
    results,          \* nyt: scrape_all_best_sellers.results
    advisor_links,    \* advisor: main.advisor_links
    all_advisor_data, \* advisor: main.all_advisor_data
    logged,           \* error lines logged by main / the collect loops
    sink_calls,       \* number of calls of save_to_csv
    sink_data,        \* the data argument of the last save_to_csv call
    file,             \* rows of the output file, <<>> while it does not exist
    rfn,              \* SpecRunner: the worker function under observation
    rtask,            \* SpecRunner: its task
    rhist,            \* SpecRunner: the responses served to it, in order
    rwaits,           \* SpecRunner: the time.sleep() calls it made, in order
    arg_start_date,   \* SpecDates: the start_date argument of generate_weekly_dates
    arg_end_date,     \* SpecDates: its end_date argument
    dpc,              \* SpecDates: "idle" | "called" | "returned"
    ret_weekly_dates  \* SpecDates: the list it returned

pvars == <<pipeline, pc, weekly_dates, cities, tasks, collected, idx, results,
           advisor_links, all_advisor_data, logged, sink_calls, sink_data, file>>
rvars == <<rfn, rtask, rhist, rwaits>>
dvars == <<arg_start_date, arg_end_date, dpc, ret_weekly_dates>>
vars == <<pvars, rvars, dvars>>

-----------------------------------------------------------------------------
(* Bounds of the model *)

\* the end date of the nyt run is start_date + 0..MaxSpan days
MaxSpan == 12
\* a served listing page holds 0..MaxItems items (books, advisor links)
MaxItems == 1
\* the directory page holds 0..MaxCities city/state links
MaxCities == 3
\* helpers.config.MAX_WORKERS, the width of the advisor pool
MAX_WORKERS == 2
\* SpecDates: start_date is a base date + 0..MaxStartShift days
MaxStartShift == 7
\* SpecDates: end_date is start_date + 0..MaxRange days
MaxRange == 13
\* cap on len(advisor_links)
MaxAdvisors == 2

(* Program constants *)
RetryCeiling == 3
NytWorkers == 4
NytDelay == 30
AdvisorDelay == 20

-----------------------------------------------------------------------------
(* Python values *)

None == [none |-> TRUE, val |-> <<>>]
Value(v) == [none |-> FALSE, val |-> v]
\* Python truthiness of None / a list / a non-empty dict wrapped in a list
Truthy(r) == ~r.none /\ r.val # <<>>

RECURSIVE Flatten(_)
\* list(chain.from_iterable(lists))
Flatten(lists) ==
    IF lists = <<>> THEN <<>> ELSE Head(lists) \o Flatten(Tail(lists))

-----------------------------------------------------------------------------
(* datetime: dates are <<year, month, day>>, ordinals as datetime.toordinal *)

IsLeap(y) == (y % 4 = 0) /\ ((y % 100 # 0) \/ (y % 400 = 0))

DaysInMonth(y, m) ==
    IF m = 2 THEN (IF IsLeap(y) THEN 29 ELSE 28)
    ELSE IF m \in {4, 6, 9, 11} THEN 30 ELSE 31

DaysBeforeYear(y) ==
    (y - 1) * 365 + ((y - 1) \div 4) - ((y - 1) \div 100) + ((y - 1) \div 400)

RECURSIVE DaysBeforeMonth(_, _)
DaysBeforeMonth(y, m) ==
    IF m = 1 THEN 0 ELSE DaysBeforeMonth(y, m - 1) + DaysInMonth(y, m - 1)

\* datetime.strptime(s, "%Y/%m/%d") as an ordinal
strptime(date) == DaysBeforeYear(date[1]) + DaysBeforeMonth(date[1], date[2]) + date[3]

\* datetime.weekday(): Monday is 0, Sunday is 6
weekday(ord) == (ord + 6) % 7

RECURSIVE YearOf(_, _)
YearOf(ord, y) == IF ord > DaysBeforeYear(y + 1) THEN YearOf(ord, y + 1) ELSE y

RECURSIVE MonthOf(_, _, _)
MonthOf(y, m, dayOfYear) ==
    IF dayOfYear > DaysBeforeMonth(y, m) + DaysInMonth(y, m)
    THEN MonthOf(y, m + 1, dayOfYear) ELSE m

\* datetime.strftime("%Y/%m/%d") of an ordinal
strftime(ord) ==
    LET y == YearOf(ord, ((ord - 1) \div 366) + 1)
        n == ord - DaysBeforeYear(y)
        m == MonthOf(y, 1, n)
    IN  <<y, m, n - DaysBeforeMonth(y, m)>>

RECURSIVE WeeksFrom(_, _)
\* the while loop of generate_weekly_dates
WeeksFrom(current_date, end_date_obj) ==
    IF current_date <= end_date_obj
    THEN <<strftime(current_date)>> \o WeeksFrom(current_date + 7, end_date_obj)
    ELSE <<>>

\* mutant: the week after end_date is not added
generate_weekly_dates_NoTrailingWeek(start_date, end_date) ==
    LET start_date_obj == strptime(start_date)
        end_date_obj == strptime(end_date)
        days_to_previous_sunday == (weekday(start_date_obj) + 1) % 7
    IN  WeeksFrom(start_date_obj - days_to_previous_sunday, end_date_obj)

generate_weekly_dates(start_date, end_date) ==
    LET start_date_obj == strptime(start_date)
        end_date_obj == strptime(end_date) + 7
        days_to_previous_sunday == (weekday(start_date_obj) + 1) % 7
    IN  WeeksFrom(start_date_obj - days_to_previous_sunday, end_date_obj)

\* main(): start_date = '2019/01/01'
StartDate == <<2019, 1, 1>>

-----------------------------------------------------------------------------
(* requests: what one requests.get can be served *)

\* a page: does it hold the container the extractor looks for, and how many items
Page(container, n) == [container |-> container, n |-> n]
NoPage == Page(FALSE, 0)

Http(status, page) == [kind |-> "http", status |-> status, page |-> page]
NetworkError == [kind |-> "network", status |-> 0, page |-> NoPage]
Timeout == [kind |-> "timeout", status |-> 0, page |-> NoPage]

\* listing pages (weeks, city pages, the directory) hold 0..max items; an
\* advisor profile page holds one advisor
GoodPages(fn, max) ==
    IF fn = "scrape_advisor" THEN {Page(TRUE, 1)}
    ELSE {Page(TRUE, n) : n \in 0..max}

\* every response class the retry policy of the specification names
AllResponses(fn, max) ==
    {Http(200, p) : p \in GoodPages(fn, max)}
        \cup {Http(200, NoPage), Http(503, NoPage), Http(429, NoPage),
              Http(404, NoPage), Http(600, NoPage), NetworkError, Timeout}

\* the classes the worker functions tell apart: a good page, a page without
\* its container, a failed request
SomeResponses(fn, max) ==
    {Http(200, p) : p \in GoodPages(fn, max)} \cup {Http(200, NoPage), Http(503, NoPage)}

\* mutant: only the statuses the retry policy names raise (5xx and 429)
RaisesRequestException_ServerOnly(resp) ==
    \/ resp.kind \in {"network", "timeout"}
    \/ resp.kind = "http"
          /\ ((resp.status >= 500 /\ resp.status < 600) \/ resp.status = 429)

\* requests.get(url) followed by response.raise_for_status(): does it raise
\* a requests.RequestException. raise_for_status raises HTTPError for the
\* statuses 400..599 and for no other
RaisesRequestException(resp) ==
    \/ resp.kind \in {"network", "timeout"}
    \/ resp.kind = "http" /\ resp.status >= 400 /\ resp.status < 600

\* the body is parsed and soup.find(<container>) is None: the extraction
\* raises TypeError/AttributeError
Malformed(resp) ==
    resp.kind = "http" /\ ~RaisesRequestException(resp) /\ ~resp.page.container

-----------------------------------------------------------------------------
(* The worker functions. One call of an operator below is one attempt: the  *)
(* body of the function from requests.get to its return, its raise or its   *)
(* recursive call. A task is the future of one executor.submit:             *)
(*   st      "pending" (queued), "in-flight" (a pool thread runs it),       *)
(*           "succeeded" (returned what it extracted) or "failed"           *)
(*           (returned after its last retry, returned None, or raised)      *)
(*   retry   the retry argument of the running call, 0 when none runs: the  *)
(*           future keeps the result or the exception, not the call frames  *)
(*   result  what the function returned (None while there is none)          *)
(*   raised  the future holds an exception instead of a result              *)
(*   slept   the time.sleep() of the last attempt, 0 when it made none      *)
(***************************************************************************)

NewTask == [st |-> "pending", retry |-> 0, result |-> None, raised |-> FALSE, slept |-> 0]

Resolved(t) == t.st \in {"succeeded", "failed"}

\* mutant: one retry too many ("retry <= 3")
RetryAllowed_Inclusive(retry) == retry <= RetryCeiling

\* "if retry < 3"
RetryAllowed(retry) == retry < RetryCeiling

\* mutant: the recursive call passes retry on unchanged
RetryCall_NoIncrement(t, backoff) ==
    [t EXCEPT !.slept = backoff]

\* mutant: the sleep grows with the number of the retry
RetryCall_Growing(t, backoff) ==
    [t EXCEPT !.retry = t.retry + 1, !.slept = backoff * (t.retry + 1)]

\* mutant: the recursive call is made at once, without the sleep
RetryCall_NoBackoff(t, backoff) ==
    [t EXCEPT !.retry = t.retry + 1, !.slept = 0]

\* time.sleep(delay); return <function>(..., retry + 1)
RetryCall(t, backoff) ==
    [t EXCEPT !.retry = t.retry + 1, !.slept = backoff]

\* mutant: the recursive call is made without "return", so a call that had to
\* retry hands None back to the pool
ReturnExtracted_OuterFrameDrops(t, value, delay) ==
    IF t.retry > 0
    THEN [t EXCEPT !.st = "failed", !.retry = 0, !.result = None, !.slept = delay]
    ELSE [t EXCEPT !.st = "succeeded", !.retry = 0, !.result = Value(value), !.slept = delay]

\* time.sleep(delay); return <extracted>
ReturnExtracted(t, value, delay) ==
    [t EXCEPT !.st = "succeeded", !.retry = 0, !.result = Value(value), !.slept = delay]

\* return [] / return None, without a sleep
ReturnFailed(t, result) ==
    [t EXCEPT !.st = "failed", !.retry = 0, !.result = result, !.slept = 0]

\* an exception that no except clause of the function catches
Raise(t) ==
    [t EXCEPT !.st = "failed", !.retry = 0, !.result = None, !.raised = TRUE, !.slept = 0]

\* the book_info dicts of one week's page
Books(week_date_str, page) ==
    [i \in 1..page.n |-> [Date |-> week_date_str, Book |-> i]]

\* the hrefs of one city/state page
Links(path, page) == [i \in 1..page.n |-> <<path, i>>]

\* the info dict of one advisor page
Info(path) == [First |-> path, Telephone |-> path]

scrape_nyt_best_sellers(week_date_str, delay, t, resp) ==
    IF RaisesRequestException(resp)
    THEN IF RetryAllowed(t.retry)
         THEN RetryCall(t, delay)
         ELSE ReturnFailed(t, Value(<<>>))
    ELSE IF Malformed(resp)
         THEN Raise(t)   \* "for item in topic_list" with topic_list None
         ELSE ReturnExtracted(t, Books(week_date_str, resp.page), delay)

scrape_advisor_by_state_and_city(path, delay, t, resp) ==
    IF RaisesRequestException(resp)
    THEN IF RetryAllowed(t.retry)
         THEN RetryCall(t, (delay * 3) \div 2)
         ELSE ReturnFailed(t, None)
    ELSE IF Malformed(resp)
         THEN ReturnFailed(t, None)   \* "except Exception": logs, falls off the end
         ELSE ReturnExtracted(t, Links(path, resp.page), delay)

\* mutant: a page without its container is retried once
scrape_advisor_RetriesMalformed(path, delay, t, resp) ==
    IF RaisesRequestException(resp)
    THEN IF RetryAllowed(t.retry)
         THEN RetryCall(t, (delay * 3) \div 2)
         ELSE ReturnFailed(t, None)
    ELSE IF Malformed(resp)
         THEN IF t.retry < 1 THEN RetryCall(t, delay) ELSE ReturnFailed(t, None)
         ELSE ReturnExtracted(t, <<Info(path)>>, delay)

scrape_advisor(path, delay, t, resp) ==
    IF RaisesRequestException(resp)
    THEN IF RetryAllowed(t.retry)
         THEN RetryCall(t, (delay * 3) \div 2)
         ELSE ReturnFailed(t, None)
    ELSE IF Malformed(resp)
         THEN ReturnFailed(t, None)   \* "except Exception": return None
         ELSE ReturnExtracted(t, <<Info(path)>>, delay)

WorkerFunctions ==
    {"scrape_nyt_best_sellers", "scrape_advisor_by_state_and_city", "scrape_advisor"}

\* one attempt of the worker function fn on task t
Attempt(fn, input, t, resp) ==
    CASE fn = "scrape_nyt_best_sellers" ->
            scrape_nyt_best_sellers(input, NytDelay, t, resp)
      [] fn = "scrape_advisor_by_state_and_city" ->
            scrape_advisor_by_state_and_city(input, AdvisorDelay, t, resp)
      [] fn = "scrape_advisor" ->
            scrape_advisor(input, AdvisorDelay, t, resp)

\* a pool thread may make an attempt of t
CanAttempt(t) == t.st = "in-flight"

-----------------------------------------------------------------------------
(* SpecRunner: one task of one worker function, every response class *)

\* the input of the observed task
RunnerInput ==
    IF rfn = "scrape_nyt_best_sellers" THEN StartDate
    ELSE IF rfn = "scrape_advisor_by_state_and_city" THEN 1 ELSE <<1, 1>>

InitPipelineIdle ==
    /\ pipeline \in {"nyt", "advisor"}
    /\ pc = "main"
    /\ weekly_dates = <<>>
    /\ cities = None
    /\ tasks = [s \in 1..2 |-> <<>>]
    /\ collected = {}
    /\ idx = [s \in 1..2 |-> 0]
    /\ results = <<>>
    /\ advisor_links = <<>>
    /\ all_advisor_data = <<>>
    /\ logged = <<>>
    /\ sink_calls = 0
    /\ sink_data = <<>>
    /\ file = <<>>

InitRunnerIdle ==
    /\ rfn = "scrape_nyt_best_sellers"
    /\ rtask = NewTask
    /\ rhist = <<>>
    /\ rwaits = <<>>

InitDatesIdle ==
    /\ arg_start_date = StartDate
    /\ arg_end_date = StartDate
    /\ dpc = "idle"
    /\ ret_weekly_dates = <<>>

InitRunner ==
    /\ InitPipelineIdle
    /\ pipeline = "nyt"
    /\ rfn \in WorkerFunctions
    /\ rtask = NewTask
    /\ rhist = <<>>
    /\ rwaits = <<>>
    /\ InitDatesIdle

\* a pool thread takes the task from the queue
RunnerStart ==
    /\ rtask.st = "pending"
    /\ rtask' = [rtask EXCEPT !.st = "in-flight"]
    /\ UNCHANGED <<rfn, rhist, rwaits, pvars, dvars>>

\* the thread makes one attempt: one requests.get and what follows it
RunnerAttempt ==
    /\ CanAttempt(rtask)
    /\ \E resp \in AllResponses(rfn, MaxItems) :
          /\ rtask' = Attempt(rfn, RunnerInput, rtask, resp)
          /\ rhist' = Append(rhist, resp)
          /\ rwaits' = Append(rwaits, rtask'.slept)
    /\ UNCHANGED <<rfn, pvars, dvars>>

NextRunner == RunnerStart \/ RunnerAttempt

SpecRunner == InitRunner /\ [][NextRunner]_vars

-----------------------------------------------------------------------------
(* SpecDates: generate_weekly_dates on its own, called once with a valid    *)
(* range.  The ranges start in the week before 2019/01/01, across the end   *)
(* of a year, and in the week before the leap day of 2020.                  *)

DateBases == {<<2018, 12, 25>>, <<2020, 2, 22>>}

DateRanges ==
    { <<strftime(strptime(b) + i), strftime(strptime(b) + i + n)>> :
          b \in DateBases, i \in 0..MaxStartShift, n \in 0..MaxRange }

InitDates ==
    /\ InitPipelineIdle
    /\ pipeline = "nyt"
    /\ InitRunnerIdle
    /\ \E r \in DateRanges : arg_start_date = r[1] /\ arg_end_date = r[2]
    /\ dpc = "called"
    /\ ret_weekly_dates = <<>>

\* the call returns
DatesReturn ==
    /\ dpc = "called"
    /\ ret_weekly_dates' = generate_weekly_dates(arg_start_date, arg_end_date)
    /\ dpc' = "returned"
    /\ UNCHANGED <<arg_start_date, arg_end_date, pvars, rvars>>

NextDates == DatesReturn

SpecDates == InitDates /\ [][NextDates]_vars

-----------------------------------------------------------------------------
(* helpers/utils.py *)

CsvFieldnames ==
    <<"Date", "Book Name", "Book Author", "Book Description",
      "Weeks on the List/New This Week">>

\* save_to_csv(data, filename): the file it leaves and whether it raised.
\* Both callers pass a flat list of dicts, so "for week_data in data" binds a
\* dict, "for book in week_data" binds one of its keys, and
\* DictWriter.writerow(<str>) raises AttributeError on the first of them,
\* after writeheader() and before any row is written.
save_to_csv(data) ==
    [file |-> <<CsvFieldnames>>, raised |-> data # <<>>]

-----------------------------------------------------------------------------
(* Spec: the pipelines *)

\* the worker function the tasks of stage s run
StageFn(s) ==
    IF pipeline = "nyt" THEN "scrape_nyt_best_sellers"
    ELSE IF s = 1 THEN "scrape_advisor_by_state_and_city" ELSE "scrape_advisor"

\* the argument of the i-th submit of stage s
StageInput(s, i) ==
    IF pipeline = "nyt" THEN weekly_dates[i]
    ELSE IF s = 1 THEN cities.val[i] ELSE advisor_links[i]

\* ThreadPoolExecutor(max_workers=...)
PoolWidth == IF pipeline = "nyt" THEN NytWorkers ELSE MAX_WORKERS

TaskIds == {<<s, i>> \in (1..2) \X (1..(MaxCities + MaxAdvisors + MaxSpan)) : i <= Len(tasks[s])}

InFlight == {id \in TaskIds : tasks[id[1]][id[2]].st = "in-flight"}

\* the stage whose collect loop main() is in, 0 outside the loops
CollectingStage == IF pc = "stage1" THEN 1 ELSE IF pc = "stage2" THEN 2 ELSE 0

\* the stage whose submits main() is making, 0 outside the comprehensions
Submitting == IF pc = "submit1" THEN 1 ELSE IF pc = "submit2" THEN 2 ELSE 0

\* the inputs main() submits to stage s
StageInputs(s) ==
    IF pipeline = "nyt" THEN weekly_dates
    ELSE IF s = 1 THEN cities.val ELSE advisor_links

\* links already returned by the city/state tasks
RECURSIVE LinksFound(_)
LinksFound(i) ==
    IF i = 0 THEN 0 ELSE Len(tasks[1][i].result.val) + LinksFound(i - 1)

\* the largest page the site serves to a task of stage s now
MaxServed(s) ==
    IF pipeline = "advisor" /\ s = 1
    THEN IF MaxAdvisors - LinksFound(Len(tasks[1])) < MaxItems
         THEN MaxAdvisors - LinksFound(Len(tasks[1])) ELSE MaxItems
    ELSE MaxItems

Init ==
    /\ InitPipelineIdle
    /\ InitRunnerIdle
    /\ InitDatesIdle

\* nyt main() up to the first submit of scrape_all_best_sellers.
\* generate_weekly_dates returns at least two dates, so there is a submit
NytDates ==
    /\ pipeline = "nyt" /\ pc = "main"
    /\ \E d \in 0..MaxSpan :
          weekly_dates' = generate_weekly_dates(StartDate, strftime(strptime(StartDate) + d))
    /\ pc' = "submit1"
    /\ UNCHANGED <<pipeline, cities, tasks, collected, idx, results, advisor_links,
                   all_advisor_data, logged, sink_calls, sink_data, file, rvars, dvars>>

\* scrape_advisor_from_directory(): what it returns, or that it raised
scrape_advisor_from_directory(resp) ==
    IF RaisesRequestException(resp) THEN [raised |-> FALSE, result |-> None]
    ELSE IF Malformed(resp) THEN [raised |-> TRUE, result |-> None]
    ELSE [raised |-> FALSE, result |-> Value([i \in 1..resp.page.n |-> i])]

\* advisor main() up to the first submit of the city/state stage
AdvisorDirectory ==
    /\ pipeline = "advisor" /\ pc = "main"
    /\ \E resp \in SomeResponses("scrape_advisor_from_directory", MaxCities) :
          LET r == scrape_advisor_from_directory(resp) IN
          IF r.raised
          THEN /\ pc' = "crashed"
               /\ UNCHANGED <<cities, tasks, logged>>
          ELSE /\ cities' = r.result
               /\ IF ~Truthy(r.result)
                  THEN /\ logged' = Append(logged, "No cities found.")
                       /\ pc' = "done"
                       /\ UNCHANGED tasks
                  ELSE /\ pc' = "submit1"
                       /\ UNCHANGED <<tasks, logged>>
    /\ UNCHANGED <<pipeline, weekly_dates, collected, idx, results, advisor_links,
                   all_advisor_data, sink_calls, sink_data, file, rvars, dvars>>

\* mutant: a future that failed is handed to a thread again
NextQueued_Requeue(id) ==
    /\ tasks[id[1]][id[2]].st \in {"pending", "failed"}
    /\ \A other \in TaskIds :
          tasks[other[1]][other[2]].st = "pending" =>
              \/ other[1] > id[1]
              \/ other[1] = id[1] /\ other[2] >= id[2]

\* one executor.submit of the comprehension over the inputs of a stage: one
\* more queued future, which the pool may start before the next submit;
\* after the last submit main() enters the collect loop of the stage
Submit ==
    /\ Submitting # 0
    /\ tasks' = [tasks EXCEPT ![Submitting] = Append(@, NewTask)]
    /\ pc' = IF Len(tasks[Submitting]) + 1 < Len(StageInputs(Submitting)) THEN pc
             ELSE IF Submitting = 1 THEN "stage1" ELSE "stage2"
    /\ UNCHANGED <<pipeline, weekly_dates, cities, collected, idx, results,
                   advisor_links, all_advisor_data, logged, sink_calls, sink_data,
                   file, rvars, dvars>>

\* the queued future the pool hands to its next free thread
NextQueued(id) ==
    /\ tasks[id[1]][id[2]].st = "pending"
    /\ \A other \in TaskIds :
          tasks[other[1]][other[2]].st = "pending" =>
              \/ other[1] > id[1]
              \/ other[1] = id[1] /\ other[2] >= id[2]

\* mutant: a thread per submit
ThreadFree_Always == TRUE

\* a pool thread is free
ThreadFree == Cardinality(InFlight) < PoolWidth

\* a pool thread starts the next queued future
Start(id) ==
    /\ NextQueued(id)
    /\ ThreadFree
    /\ tasks' = [tasks EXCEPT ![id[1]][id[2]].st = "in-flight"]
    /\ UNCHANGED <<pipeline, pc, weekly_dates, cities, collected, idx, results,
                   advisor_links, all_advisor_data, logged, sink_calls, sink_data,
                   file, rvars, dvars>>

\* a pool thread makes one attempt of the future it runs
TaskAttempt(id) ==
    /\ CanAttempt(tasks[id[1]][id[2]])
    /\ \E resp \in SomeResponses(StageFn(id[1]), MaxServed(id[1])) :
          tasks' = [tasks EXCEPT ![id[1]][id[2]] =
                        Attempt(StageFn(id[1]), StageInput(id[1], id[2]), @, resp)]
    /\ UNCHANGED <<pipeline, pc, weekly_dates, cities, collected, idx, results,
                   advisor_links, all_advisor_data, logged, sink_calls, sink_data,
                   file, rvars, dvars>>

\* as_completed may yield the future id
Yields(id) ==
    /\ id[1] = CollectingStage
    /\ Resolved(tasks[id[1]][id[2]])
    /\ id \notin collected

\* mutant: an append that reads the aggregate before the previous append was
\* stored, and so drops it
CollectResult_LostUpdate(s, t) ==
    IF pipeline = "nyt"
    THEN /\ results' = <<t.result.val>>
         /\ UNCHANGED <<advisor_links, all_advisor_data>>
    ELSE IF s = 1
    THEN /\ advisor_links' =
                IF Truthy(t.result) THEN t.result.val ELSE advisor_links
         /\ UNCHANGED <<results, all_advisor_data>>
    ELSE /\ all_advisor_data' =
                IF Truthy(t.result) THEN t.result.val ELSE all_advisor_data
         /\ UNCHANGED <<results, advisor_links>>

\* mutant: the first loop keeps the links of the last city/state page only
CollectResult_Overwrite(s, t) ==
    IF pipeline = "nyt"
    THEN /\ results' = Append(results, t.result.val)
         /\ UNCHANGED <<advisor_links, all_advisor_data>>
    ELSE IF s = 1
    THEN /\ advisor_links' =
                IF Truthy(t.result) THEN t.result.val ELSE advisor_links
         /\ UNCHANGED <<results, all_advisor_data>>
    ELSE /\ all_advisor_data' =
                IF Truthy(t.result) THEN all_advisor_data \o t.result.val
                ELSE all_advisor_data
         /\ UNCHANGED <<results, advisor_links>>

\* the body of the collect loop of stage s for a future t that did not raise
CollectResult(s, t) ==
    IF pipeline = "nyt"
    THEN /\ results' = Append(results, t.result.val)
         /\ UNCHANGED <<advisor_links, all_advisor_data>>
    ELSE IF s = 1
    THEN /\ advisor_links' =
                IF Truthy(t.result) THEN advisor_links \o t.result.val ELSE advisor_links
         /\ UNCHANGED <<results, all_advisor_data>>
    ELSE /\ all_advisor_data' =
                IF Truthy(t.result) THEN all_advisor_data \o t.result.val
                ELSE all_advisor_data
         /\ UNCHANGED <<results, advisor_links>>

\* mutant: future.result() outside the try: the worker's exception ends main()
CollectPc_Uncaught(t) == IF t.raised THEN "crashed" ELSE pc

\* where main() is after "try: future.result() ... except Exception": the
\* exception a future holds is logged and the loop goes on
CollectPc(t) == pc

\* mutant: the except clause appends an empty entry for the failed future
Collect_AppendsOnError(id) ==
    /\ Yields(id)
    /\ collected' = collected \cup {id}
    /\ idx' = [idx EXCEPT ![id[1]] = @ + 1]
    /\ IF tasks[id[1]][id[2]].raised
       THEN /\ logged' = Append(logged, "Error scraping")
            /\ results' = Append(results, <<>>)
            /\ UNCHANGED <<advisor_links, all_advisor_data>>
       ELSE /\ CollectResult(id[1], tasks[id[1]][id[2]])
            /\ UNCHANGED logged
    /\ pc' = CollectPc(tasks[id[1]][id[2]])
    /\ UNCHANGED <<pipeline, weekly_dates, cities, tasks, sink_calls, sink_data,
                   file, rvars, dvars>>

\* one iteration of "for ... in enumerate(as_completed(futures), 1)"
Collect(id) ==
    /\ Yields(id)
    /\ collected' = collected \cup {id}
    /\ idx' = [idx EXCEPT ![id[1]] = @ + 1]
    /\ IF tasks[id[1]][id[2]].raised
       THEN /\ logged' = Append(logged, "Error scraping")
            /\ UNCHANGED <<results, advisor_links, all_advisor_data>>
       ELSE /\ CollectResult(id[1], tasks[id[1]][id[2]])
            /\ UNCHANGED logged
    /\ pc' = CollectPc(tasks[id[1]][id[2]])
    /\ UNCHANGED <<pipeline, weekly_dates, cities, tasks, sink_calls, sink_data,
                   file, rvars, dvars>>

\* mutant: the loop ends one future short
LoopOver_OneShort(s) == CollectingStage = s /\ idx[s] + 1 >= Len(tasks[s])

\* mutant: the loop ends at the first future yielded
LoopOver_FirstYield(s) ==
    CollectingStage = s /\ (idx[s] >= 1 \/ Len(tasks[s]) = 0)

\* as_completed is exhausted: every future of stage s has been yielded
LoopOver(s) == CollectingStage = s /\ idx[s] = Len(tasks[s])

\* advisor main() leaves the first loop for the comprehension over
\* advisor_links; with no link there is no submit and the second loop is next
SubmitAdvisors ==
    /\ pipeline = "advisor"
    /\ LoopOver(1)
    /\ pc' = IF advisor_links = <<>> THEN "stage2" ELSE "submit2"
    /\ UNCHANGED <<pipeline, weekly_dates, cities, tasks, collected, idx, results,
                   advisor_links, all_advisor_data, logged, sink_calls, sink_data,
                   file, rvars, dvars>>

\* mutant: the file is written after the first loop
TerminalStage_First == IF pipeline = "nyt" THEN 1 ELSE 1

\* the stage whose loop is the last of main()
TerminalStage == IF pipeline = "nyt" THEN 1 ELSE 2

\* the data main() passes to save_to_csv
SinkArgument ==
    IF pipeline = "nyt" THEN Flatten(results) ELSE all_advisor_data

\* main() after its last loop: the call of save_to_csv and the end of the run
Save ==
    /\ LoopOver(TerminalStage)
    /\ sink_calls' = sink_calls + 1
    /\ sink_data' = SinkArgument
    /\ file' = save_to_csv(SinkArgument).file
    /\ pc' = IF save_to_csv(SinkArgument).raised THEN "crashed" ELSE "done"
    /\ UNCHANGED <<pipeline, weekly_dates, cities, tasks, collected, idx, results,
                   advisor_links, all_advisor_data, logged, rvars, dvars>>

Next ==
    \/ NytDates
    \/ AdvisorDirectory
    \/ Submit
    \/ \E id \in TaskIds : Start(id)
    \/ \E id \in TaskIds : TaskAttempt(id)
    \/ \E id \in TaskIds : Collect(id)
    \/ SubmitAdvisors
    \/ Save

Spec == Init /\ [][Next]_vars

\* Spec with every fetch returning and every thread scheduled: whenever a
\* step of main() or of a pool thread is possible, one is eventually taken
SpecFair == Spec /\ WF_vars(Next)

-----------------------------------------------------------------------------
(* Properties *)

Indices(s) == 1..Len(tasks[s])
Succeeded(s) == {i \in Indices(s) : tasks[s][i].st = "succeeded"}
Failed(s) == {i \in Indices(s) : tasks[s][i].st = "failed"}

\* main() has left the collect loop of stage s
StageCompleted(s) ==
    IF s = 1 THEN pc \in {"submit2", "stage2"} \/ sink_calls > 0
    ELSE pipeline = "advisor" /\ sink_calls > 0

\* C1: once a stage has completed, every task submitted to it has been yielded
\* to the collect loop and is succeeded or failed, so that
\* |succeeded| + |failed| = N.
C1_EveryTaskAccounted ==
    \A s \in 1..2 :
        StageCompleted(s) =>
            /\ \A i \in Indices(s) : <<s, i>> \in collected /\ Resolved(tasks[s][i])
            /\ idx[s] = Len(tasks[s])
            /\ Cardinality(Succeeded(s)) + Cardinality(Failed(s)) = Len(tasks[s])

C1_Witness ==
    \E s \in 1..2 :
        /\ StageCompleted(s)
        /\ Len(tasks[s]) >= 2
        /\ Succeeded(s) # {}
        /\ Failed(s) # {}

\* C2: a task makes at most RetryCeiling + 1 attempts, and once it is
\* succeeded or failed it makes no further attempt and does not change.
C2_BoundedAttemptsThenFrozen ==
    /\ [](Len(rhist) <= RetryCeiling + 1)
    /\ [][Resolved(rtask) => (rtask' = rtask /\ rhist' = rhist)]_vars

C2_Witness == Resolved(rtask) /\ Len(rhist) = RetryCeiling + 1

\* what the worker function fn extracts from a good page
Extracted(fn, input, page) ==
    IF fn = "scrape_nyt_best_sellers" THEN Books(input, page)
    ELSE IF fn = "scrape_advisor_by_state_and_city" THEN Links(input, page)
    ELSE <<Info(input)>>

IsGoodPage(resp) == resp.kind = "http" /\ resp.status = 200 /\ resp.page.container
IsStatus(resp, status) == resp.kind = "http" /\ resp.status = status

\* the task was served 503, 503 and then a good page
TwoFailuresThenPage ==
    /\ Len(rhist) = 3
    /\ IsStatus(rhist[1], 503)
    /\ IsStatus(rhist[2], 503)
    /\ IsGoodPage(rhist[3])

\* C3: a task served 503 twice and a good page on the third attempt is
\* succeeded after exactly these 3 attempts, with the records of the third page.
C3_ThirdAttemptSucceeds ==
    TwoFailuresThenPage =>
        /\ rtask.st = "succeeded"
        /\ ~rtask.raised
        /\ rtask.result = Value(Extracted(rfn, RunnerInput, rhist[3].page))
        /\ Len(rwaits) = 3

C3_Witness ==
    /\ TwoFailuresThenPage
    /\ rtask.st = "succeeded"
    /\ rtask.result.val # <<>>

\* the failures the retry policy of the specification names as retryable
IsRetryableFailure(resp) ==
    \/ resp.kind \in {"network", "timeout"}
    \/ resp.kind = "http"
          /\ ((resp.status >= 500 /\ resp.status < 600) \/ resp.status = 429)

\* the other 4xx statuses
IsOtherClientError(resp) ==
    resp.kind = "http" /\ resp.status >= 400 /\ resp.status < 500 /\ resp.status # 429

LastResponse == rhist[Len(rhist)]

\* C4 as claimed: a 4xx status other than 429 is fatal, the task is failed
\* with no further attempt.
C4_ClientErrorIsFatal ==
    (rhist # <<>> /\ IsOtherClientError(LastResponse)) => rtask.st = "failed"

\* C4 as amended: every failed request (network error, timeout, any status
\* 400..599, the other 4xx included) is retried while fewer than RetryCeiling
\* retries were made and fails the task after that; a request that did not
\* fail (any other status, 600 and above included) is never retried.
C4_EveryRequestFailureRetried ==
    rhist # <<>> =>
        IF IsRetryableFailure(LastResponse) \/ IsOtherClientError(LastResponse)
        THEN IF Len(rhist) <= RetryCeiling
             THEN rtask.st = "in-flight" /\ rtask.retry = Len(rhist)
             ELSE rtask.st = "failed"
        ELSE Resolved(rtask)

C4_Witness ==
    /\ Len(rhist) = 2
    /\ IsOtherClientError(rhist[1])
    /\ IsOtherClientError(rhist[2])
    /\ rtask.st = "in-flight"
    /\ rtask.retry = 2

\* a response whose status is no error status and whose body lacks the container
IsMalformedPage(resp) ==
    /\ resp.kind = "http"
    /\ (resp.status < 400 \/ resp.status >= 600)
    /\ ~resp.page.container

\* C5 as claimed: the first page without its container is answered by one retry.
C5_MalformedRetriedOnce ==
    (Len(rhist) = 1 /\ IsMalformedPage(rhist[1])) =>
        rtask.st = "in-flight" /\ rtask.retry = 1

\* C5 as amended: a page without its primary container is never retried: the
\* task is failed on that attempt, without a sleep; the bestseller worker
\* raises, the advisor workers return None.
C5_MalformedFailsAtOnce ==
    (rhist # <<>> /\ IsMalformedPage(LastResponse)) =>
        /\ rtask.st = "failed"
        /\ rtask.result = None
        /\ rtask.raised = (rfn = "scrape_nyt_best_sellers")
        /\ rwaits[Len(rwaits)] = 0

C5_Witness ==
    /\ Len(rhist) = 1
    /\ IsMalformedPage(rhist[1])
    /\ rtask.st = "failed"

\* the result a stage whose tasks all failed leaves behind
EmptyStageResult(s) ==
    IF pipeline = "nyt" THEN Flatten(results) = <<>>
    ELSE IF s = 1 THEN advisor_links = <<>> ELSE all_advisor_data = <<>>

\* C6: a failed task (retries exhausted, or an exception in the worker) does
\* not end the run and does not stop the stage: main() only ends abnormally
\* before any task exists or inside save_to_csv, a collect loop is never
\* stuck, a stage is only left with all its tasks yielded, and a stage whose
\* tasks all failed completes with an empty result.
C6_FailuresStayInStage ==
    /\ pc = "crashed" => (tasks[1] = <<>> \/ sink_calls = 1)
    /\ pc \in {"submit1", "stage1", "submit2", "stage2"} => ENABLED Next
    /\ \A s \in 1..2 :
          StageCompleted(s) =>
              /\ \A i \in Failed(s) : <<s, i>> \in collected
              /\ \A i \in Indices(s) \ Failed(s) : <<s, i>> \in collected
              /\ Failed(s) = Indices(s) => EmptyStageResult(s)

C6_Witness ==
    /\ pipeline = "nyt"
    /\ pc = "done"
    /\ Len(tasks[1]) >= 2
    /\ Failed(1) = Indices(1)
    /\ \E i \in Indices(1) : tasks[1][i].raised
    /\ \E i \in Indices(1) : ~tasks[1][i].raised
    /\ file # <<>>

\* C7: at most PoolWidth tasks are in flight.
C7_BoundedInFlight == Cardinality(InFlight) <= PoolWidth

C7_Witness ==
    /\ Cardinality(InFlight) = PoolWidth
    /\ \E id \in TaskIds : tasks[id[1]][id[2]].st = "pending"

\* C8: no advisor task exists while a city/state task is unresolved or not yet
\* yielded, and the advisor tasks are the advisor links, one task per link.
C8_StagesDoNotInterleave ==
    (pipeline = "advisor" /\ (pc \in {"submit2", "stage2"} \/ tasks[2] # <<>>)) =>
        /\ \A i \in Indices(1) : Resolved(tasks[1][i]) /\ <<1, i>> \in collected
        /\ Len(tasks[1]) = Len(cities.val)
        /\ Len(tasks[2]) <= Len(advisor_links)
        /\ pc # "submit2" => Len(tasks[2]) = Len(advisor_links)

C8_Witness ==
    /\ pipeline = "advisor"
    /\ pc = "stage2"
    /\ Len(tasks[1]) >= 2
    /\ \E i \in Indices(2) : tasks[2][i].st = "in-flight"

\* C9: when the directory lists no link, the run ends without error and
\* leaves an output file holding the header row only.
C9_EmptyDirectoryWritesHeader ==
    (pipeline = "advisor" /\ cities = Value(<<>>) /\ pc # "main") =>
        /\ pc = "done"
        /\ Len(file) = 1

\* the records the succeeded tasks of stage s returned
RecordsOf(s) == UNION {{tasks[s][i].result.val[k] : k \in 1..Len(tasks[s][i].result.val)} : i \in Succeeded(s)}

RECURSIVE CountRecords(_, _)
CountRecords(s, i) ==
    IF i = 0 THEN 0
    ELSE CountRecords(s, i - 1)
            + (IF tasks[s][i].st = "succeeded" THEN Len(tasks[s][i].result.val) ELSE 0)

Range(seq) == {seq[k] : k \in 1..Len(seq)}

RunEnded == pc \in {"done", "crashed"}

\* C10 as claimed: every run that has ended has called the sink exactly once.
C10_SinkOncePerRun == RunEnded => sink_calls = 1

\* C10 as amended: the sink is called at most once per run; it is called
\* exactly once in every ended run that submitted tasks and never in a run
\* that ended at the root listing; it is only called once the terminal stage
\* has one task per input and all of them are yielded, with exactly the
\* records of the succeeded terminal-stage tasks; and when the city/state
\* stage yields no advisor link the run ends without error, with an empty
\* result (the header row only).
C10_SinkOnceAfterTerminalStage ==
    LET last == IF pipeline = "nyt" THEN 1 ELSE 2 IN
    /\ sink_calls <= 1
    /\ RunEnded => (sink_calls = 1 <=> tasks[1] # <<>>)
    /\ sink_calls = 1 =>
          /\ RunEnded
          /\ pipeline = "advisor" => Len(tasks[2]) = Len(advisor_links)
          /\ \A i \in Indices(last) : Resolved(tasks[last][i]) /\ <<last, i>> \in collected
          /\ Range(sink_data) = RecordsOf(last)
          /\ Len(sink_data) = CountRecords(last, Len(tasks[last]))
    /\ (pipeline = "advisor" /\ sink_calls = 1 /\ advisor_links = <<>>) =>
          pc = "done" /\ sink_data = <<>> /\ Len(file) = 1

C10_Witness ==
    /\ sink_calls = 1
    /\ pipeline = "advisor"
    /\ sink_data # <<>>
    /\ Failed(2) # {}


\* the run ended before main() reached save_to_csv
Halted == RunEnded /\ sink_calls = 0

\* C11: a run only halts when the root listing could not be fetched: then no
\* task was submitted and the failure was logged by main(); nothing else
\* ends a run before its sink call.
C11_OnlyRootFetchFailureHalts ==
    Halted =>
        /\ pipeline = "advisor"
        /\ pc = "done"
        /\ cities = None
        /\ tasks[1] = <<>>
        /\ logged # <<>>

\* the delay argument the workers of fn are submitted with
PacingDelay(fn) == IF fn = "scrape_nyt_best_sellers" THEN NytDelay ELSE AdvisorDelay

\* the sleep the workers of fn make before a retry
BackoffWait(fn) ==
    IF fn = "scrape_nyt_best_sellers" THEN NytDelay ELSE (AdvisorDelay * 3) \div 2

IsRequestFailure(resp) == IsRetryableFailure(resp) \/ IsOtherClientError(resp)

\* C12 as claimed: every attempt is followed by a wait of at least the pacing
\* delay, and an attempt that is retried by more than the pacing delay alone.
C12_PacingAfterEveryAttempt ==
    \A k \in 1..Len(rwaits) :
        /\ rwaits[k] >= PacingDelay(rfn)
        /\ (IsRequestFailure(rhist[k]) /\ k <= RetryCeiling) => rwaits[k] > PacingDelay(rfn)

\* C12 as amended: an attempt is followed by exactly one sleep or by none: the
\* pacing delay after a page that was extracted, the retry wait alone after a
\* failed request that is retried, and no sleep at all after the last failed
\* request or after a page without its container.
C12_OneSleepOrNone ==
    /\ Len(rwaits) = Len(rhist)
    /\ \A k \in 1..Len(rwaits) :
          rwaits[k] =
              IF IsGoodPage(rhist[k]) THEN PacingDelay(rfn)
              ELSE IF IsRequestFailure(rhist[k]) /\ k <= RetryCeiling THEN BackoffWait(rfn)
              ELSE 0

C12_Witness ==
    /\ rfn = "scrape_advisor"
    /\ Len(rhist) = RetryCeiling + 1
    /\ \A k \in 1..Len(rhist) : IsRequestFailure(rhist[k])
    /\ rwaits[1] = BackoffWait(rfn)
    /\ rwaits[Len(rwaits)] = 0
    /\ rtask.st = "failed"

\* the header the advisor records call for: the keys of scrape_advisor's info
AdvisorFieldnames == <<"First", "Last", "Street", "City", "State", "Telephone">>

ExpectedHeader ==
    IF pipeline = "nyt"
    THEN <<"Date", "Book Name", "Book Author", "Book Description",
           "Weeks on the List/New This Week">>
    ELSE AdvisorFieldnames

\* C13: the file written by the sink holds the pipeline's own header and then
\* one row per record it was given.
C13_HeaderAndOneRowPerRecord ==
    sink_calls = 1 =>
        /\ file # <<>>
        /\ file[1] = ExpectedHeader
        /\ Len(file) = 1 + Len(sink_data)


\* the ordinals of the dates generate_weekly_dates returned
ReturnedOrdinals == [i \in 1..Len(ret_weekly_dates) |-> strptime(ret_weekly_dates[i])]

\* C14: for a range with start <= end, generate_weekly_dates returns Sundays
\* 7 days apart (so strictly increasing), the first being the Sunday on or
\* before the start date, the last but one the Sunday on or before the end
\* date and the last the Sunday a week after it; 2019/01/01 - 2019/01/14
\* gives exactly the 4 Sundays 2018/12/30 .. 2019/01/20.
C14_WeeklySundays ==
    dpc = "returned" =>
        LET o == ReturnedOrdinals
            n == Len(o)
            s == strptime(arg_start_date)
            e == strptime(arg_end_date)
        IN  /\ n >= 2
            /\ \A i \in 1..n : weekday(o[i]) = 6
            /\ \A i \in 1..n : strftime(o[i]) = ret_weekly_dates[i]
            /\ \A i \in 1..(n - 1) : o[i + 1] = o[i] + 7
            /\ o[1] <= s /\ s < o[1] + 7
            /\ o[n - 1] <= e /\ e < o[n - 1] + 7
            /\ o[n] = o[n - 1] + 7
            /\ (arg_start_date = <<2019, 1, 1>> /\ arg_end_date = <<2019, 1, 14>>) =>
                   ret_weekly_dates =
                       << <<2018, 12, 30>>, <<2019, 1, 6>>, <<2019, 1, 13>>, <<2019, 1, 20>> >>

C14_Witness ==
    /\ dpc = "returned"
    /\ arg_start_date = <<2019, 1, 1>>
    /\ arg_end_date = <<2019, 1, 14>>
    /\ Len(ret_weekly_dates) = 4


\* main() has made the submits of stage s
StageSubmitted(s) ==
    IF s = 1 THEN pc \in {"stage1", "submit2", "stage2"} \/ sink_calls > 0
    ELSE pipeline = "advisor" /\ (pc = "stage2" \/ sink_calls > 0)

\* the life of one future: queued, then run by one thread through its own
\* retries, then resolved for good
OneRunPerTask ==
    /\ \A s \in 1..2 : Len(tasks'[s]) >= Len(tasks[s])
    /\ \A id \in TaskIds :
          LET t == tasks[id[1]][id[2]]
              u == tasks'[id[1]][id[2]]
          IN  /\ t.st = "pending" => (u = t \/ u = [t EXCEPT !.st = "in-flight"])
              /\ t.st = "in-flight" => u.st # "pending"
              /\ Resolved(t) => u = t

\* C15: every input submitted to a stage is one task, the tasks processed by
\* a completed stage are as many as its inputs, and a task is started once:
\* it leaves the queue once, is attempted only while its own retry sequence
\* runs, and is never run again after it is succeeded or failed.
C15_EachInputRunOnce ==
    /\ [](\A s \in 1..2 :
            /\ IF StageSubmitted(s)
               THEN Len(tasks[s]) = Len(StageInputs(s))
               ELSE IF Submitting = s
               THEN Len(tasks[s]) < Len(StageInputs(s))
               ELSE tasks[s] = <<>>
            /\ StageCompleted(s) =>
                  /\ Cardinality({i \in Indices(s) : Resolved(tasks[s][i])})
                        = Len(StageInputs(s))
                  /\ Cardinality({id \in collected : id[1] = s}) = Len(StageInputs(s))
                  /\ idx[s] = Len(StageInputs(s)))
    /\ [][OneRunPerTask]_vars

C15_Witness ==
    /\ pipeline = "advisor"
    /\ StageCompleted(1)
    /\ Len(tasks[1]) > PoolWidth
    /\ Succeeded(1) # {}
    /\ Failed(1) # {}


\* the k-th attempt of the observed task was followed by a retry
Retried(k) == k <= Len(rhist) /\ k <= RetryCeiling /\ IsRequestFailure(rhist[k])

\* C16 as claimed: the wait before a retry grows with the attempt: the wait
\* before retry k+1 is greater than the wait before retry k.
C16_BackoffGrows ==
    \A k \in 1..RetryCeiling :
        (Retried(k) /\ Retried(k + 1)) => rwaits[k + 1] > rwaits[k]

\* C16 as amended: the wait before a retry does not depend on the attempt:
\* it is delay in the bestseller worker and 1.5 * delay in the advisor
\* workers, so the waits before retry k and retry k+1 are equal.
C16_BackoffConstant ==
    \A k \in 1..RetryCeiling :
        /\ Retried(k) =>
              rwaits[k] = IF rfn = "scrape_nyt_best_sellers" THEN NytDelay
                          ELSE (3 * AdvisorDelay) \div 2
        /\ (Retried(k) /\ Retried(k + 1)) => rwaits[k + 1] = rwaits[k]

C16_Witness ==
    /\ \A k \in 1..RetryCeiling : Retried(k)
    /\ rwaits[1] > 0
    /\ rwaits[RetryCeiling] = rwaits[1]


\* how often x occurs in seq
Occurrences(seq, x) == Cardinality({k \in 1..Len(seq) : seq[k] = x})

\* how often the succeeded tasks 1..i of stage s returned x
RECURSIVE ReturnedBy(_, _, _)
ReturnedBy(s, i, x) ==
    IF i = 0 THEN 0
    ELSE ReturnedBy(s, i - 1, x)
            + (IF tasks[s][i].st = "succeeded"
               THEN Occurrences(tasks[s][i].result.val, x) ELSE 0)

\* C17: the inputs of the advisor stage are exactly the links the succeeded
\* city/state tasks returned, each as often as it was returned; a failed
\* city/state task contributes no input.
C17_NextStageInputsAreOutputs ==
    (pipeline = "advisor" /\ StageSubmitted(2)) =>
        /\ Len(tasks[2]) = CountRecords(1, Len(tasks[1]))
        /\ {StageInput(2, i) : i \in Indices(2)} = RecordsOf(1)
        /\ \A x \in RecordsOf(1) \cup Range(advisor_links) :
              Occurrences(advisor_links, x) = ReturnedBy(1, Len(tasks[1]), x)
        /\ \A i \in Indices(2) :
              \E j \in Succeeded(1) : StageInput(2, i) \in Range(tasks[1][j].result.val)
        /\ \A j \in Failed(1) :
              \A i \in Indices(2) : StageInput(2, i)[1] # StageInput(1, j)

C17_Witness ==
    /\ pipeline = "advisor"
    /\ StageSubmitted(2)
    /\ Cardinality({j \in Succeeded(1) : tasks[1][j].result.val # <<>>}) = 2
    /\ Failed(1) # {}
    /\ Len(tasks[2]) = 2


\* the result-aggregation structures of the stages
Aggregates == <<results, advisor_links, all_advisor_data>>

\* the aggregate of stage s
Aggregate(s) ==
    IF pipeline = "nyt" THEN results
    ELSE IF s = 1 THEN advisor_links ELSE all_advisor_data

\* what the collect loop adds to the aggregate of its stage for future t
Contribution(t) ==
    IF t.raised THEN <<>>
    ELSE IF pipeline = "nyt" THEN <<t.result.val>>
    ELSE IF Truthy(t.result) THEN t.result.val ELSE <<>>

\* the length of the contributions of the futures 1..i of stage s that the
\* collect loop has been through
RECURSIVE CollectedLen(_, _)
CollectedLen(s, i) ==
    IF i = 0 THEN 0
    ELSE CollectedLen(s, i - 1)
            + (IF <<s, i>> \in collected THEN Len(Contribution(tasks[s][i])) ELSE 0)

\* the futures a step wrote to
WrittenTasks ==
    {id \in TaskIds : tasks'[id[1]][id[2]] # tasks[id[1]][id[2]]}

\* a step writes to one future and to no aggregate, or it is an iteration of
\* the collect loop: it takes one resolved future not collected before and
\* appends the contribution of that future to the aggregate of its stage
OneWriterAtATime ==
    /\ \A s \in 1..2 : Len(tasks'[s]) >= Len(tasks[s])
    /\ Cardinality(WrittenTasks) <= 1
    /\ WrittenTasks # {} => (Aggregates' = Aggregates /\ collected' = collected)
    /\ collected' # collected =>
          \E id \in TaskIds \ collected :
              /\ collected' = collected \cup {id}
              /\ id[1] = CollectingStage
              /\ Resolved(tasks[id[1]][id[2]])
              /\ Aggregate(id[1])' = Aggregate(id[1]) \o Contribution(tasks[id[1]][id[2]])
    /\ Aggregates' # Aggregates => collected' # collected

\* C18: the aggregate of a stage is written by the collect loop only, one
\* completion per step, while the pool threads write to their own future
\* only; and no completion is lost: the aggregate holds the contribution of
\* every future the loop has been through.
C18_SingleAggregator ==
    /\ [](\A s \in 1..TerminalStage :
            /\ Len(Aggregate(s)) = CollectedLen(s, Len(tasks[s]))
            /\ \A i \in Indices(s) :
                  <<s, i>> \in collected =>
                      Range(Contribution(tasks[s][i])) \subseteq Range(Aggregate(s)))
    /\ [][OneWriterAtATime]_vars

C18_Witness ==
    /\ pipeline = "nyt"
    /\ pc = "stage1"
    /\ Len(results) >= 2
    /\ InFlight # {}
    /\ \E i \in Indices(1) : Resolved(tasks[1][i]) /\ <<1, i>> \notin collected


\* a step of a running task either leaves its retry counter or adds 1 to it
\* (the recursive call); the counter is dropped with the frames when the
\* function returns
RetryCounts ==
    /\ \A s \in 1..2 : Len(tasks'[s]) >= Len(tasks[s])
    /\ \A id \in TaskIds :
          LET t == tasks[id[1]][id[2]]
              u == tasks'[id[1]][id[2]]
          IN  (t.st = "in-flight" /\ u.st = "in-flight" /\ u # t) =>
                  u.retry = t.retry + 1

\* every submitted task is succeeded or failed
AllResolved == \A id \in TaskIds : Resolved(tasks[id[1]][id[2]])

\* C19: while a task runs its retry counter never decreases and never passes
\* the ceiling, a task at the ceiling is not retried again, and, every fetch
\* returning, the run eventually ends, and at its end every task is
\* succeeded or failed and every stage that was submitted has completed,
\* also when every fetch fails.
C19_RetriesCeaseAndRunEnds ==
    /\ [](\A id \in TaskIds : tasks[id[1]][id[2]].retry \in 0..RetryCeiling)
    /\ [][RetryCounts]_vars
    /\ [](RunEnded =>
            /\ AllResolved
            /\ \A s \in 1..2 : StageSubmitted(s) => StageCompleted(s))
    /\ <>RunEnded

C19_Witness ==
    /\ pipeline = "nyt"
    /\ RunEnded
    /\ Len(tasks[1]) >= 2
    /\ \A i \in Indices(1) : tasks[1][i].st = "failed" /\ ~tasks[1][i].raised


\* the week tasks whose worker returned / raised
ReturnedNormally == {i \in Indices(1) : ~tasks[1][i].raised}
RaisedInWorker == {i \in Indices(1) : tasks[1][i].raised}

\* C20: when scrape_all_best_sellers has returned, results has one entry per
\* week task whose worker returned: the list of its books for a task that
\* succeeded, an empty list for a task that exhausted its retries (the same
\* entry as for a page with no book), and no entry, but one logged error,
\* for a task whose worker raised.
C20_OneEntryPerReturnedWeek ==
    (pipeline = "nyt" /\ StageCompleted(1)) =>
        /\ Len(results) = Cardinality(ReturnedNormally)
        /\ Len(logged) = Cardinality(RaisedInWorker)
        /\ \A i \in ReturnedNormally :
              /\ ~tasks[1][i].result.none
              /\ tasks[1][i].result.val \in Range(results)
              /\ tasks[1][i].st = "failed" => tasks[1][i].result.val = <<>>
        /\ Cardinality({k \in 1..Len(results) : results[k] = <<>>})
              = Cardinality({i \in ReturnedNormally : tasks[1][i].result.val = <<>>})
        /\ \A i \in RaisedInWorker :
              tasks[1][i].st = "failed" /\ tasks[1][i].result = None

C20_Witness ==
    /\ pipeline = "nyt"
    /\ StageCompleted(1)
    /\ \E i \in ReturnedNormally : tasks[1][i].st = "failed"
    /\ \E i \in ReturnedNormally :
          tasks[1][i].st = "succeeded" /\ tasks[1][i].result.val # <<>>
    /\ RaisedInWorker # {}
    /\ Len(results) = Len(tasks[1]) - 1

====
